---- MODULE Spec2Model ----
(***************************************************************************)
(* A model of gitctl's command handlers (src/gitctl/command.py):          *)
(* gitctl_update, gitctl_status, gitctl_pending, gitctl_fetch and         *)
(* gitctl_branch, run over a list of external projects, and               *)
(* gitctl_create.  Each project has a working copy (or none yet) and an   *)
(* upstream repository.  Commits are numbers, 0 stands for "no such ref"; *)
(* the commit graph is a fixed history.  A native git call either         *)
(* succeeds with its documented effect or fails; GitPython turns a        *)
(* failure into an exception unless the call says with_exceptions=False.  *)
(***************************************************************************)
EXTENDS Integers, Sequences, FiniteSets, TLC

\* ------------------------------------------------------------- bounds
\* Number of commits in the history the repositories draw their refs from.
NumCommits == 4
\* Number of command invocations in one behaviour.
MaxRuns == 2

Commits == 1..NumCommits
NoCommit == 0

\* ------------------------------------------------------ configuration
\* config['upstream']
Upstream == "origin"
\* config['development-branch'], ['staging-branch'], ['production-branch']
DevelopmentBranch == "development"
StagingBranch == "staging"
ProductionBranch == "production"
Branches == {DevelopmentBranch, StagingBranch, ProductionBranch}
RemoteName(b) == Upstream \o "/" \o b
\* config['branches']: ordered (remote, local) pairs
BranchMap ==
  << <<RemoteName(DevelopmentBranch), DevelopmentBranch>>,
     <<RemoteName(StagingBranch), StagingBranch>>,
     <<RemoteName(ProductionBranch), ProductionBranch>> >>

\* --------------------------------------------------------- the history
\* 1 <- 2 <- 3, 2 <- 4 (a fork), 5 merges 3 and 4, later commits follow 5.
Parents(c) ==
  IF c = 1 THEN {}
  ELSE IF c = 4 THEN {2}
  ELSE IF c = 5 THEN {3, 4}
  ELSE {c - 1}

\* The tree (file contents) of a commit; commit 4 restores the tree of 2.
TreeOf(c) == IF c = 4 THEN 2 ELSE c

RECURSIVE Ancestors(_)
\* The commits reachable from c, c included (empty for NoCommit).
Ancestors(c) ==
  IF c = NoCommit THEN {}
  ELSE {c} \cup UNION {Ancestors(p) : p \in Parents(c)}

IsAncestor(a, b) == a \in Ancestors(b)

\* ------------------------------------------------------- project, treeish
\* A treeish is text: a ref name or a 40-hex commit id.  kind records which
\* of the two formats the text has; sha is the commit the hex text names.
Sha(c) == [kind |-> "sha1", sha |-> c, ref |-> ""]
Ref(b) == [kind |-> "ref", sha |-> NoCommit, ref |-> b]
is_sha1(t) == t.kind = "sha1"

\* ------------------------------------------------------------ git model
\* A working copy: exists (the path exists), git (the path holds a
\* repository), origin (the remote named config['upstream'] is configured),
\* dirty (uncommitted changes), active (checked-out branch, "" when HEAD is
\* detached), detached (the commit of a detached HEAD), master (the tip of
\* the branch git init starts on, which no mapping names), local and
\* remote-tracking tips of the mapped branches, objects (the commits in the
\* object store: every commit the repository ever got, whether or not a ref
\* still reaches it).
Master == "master"
NoRepo ==
  [exists |-> FALSE, git |-> FALSE, origin |-> FALSE, dirty |-> FALSE,
   active |-> "", detached |-> NoCommit, master |-> NoCommit,
   local |-> [b \in Branches |-> NoCommit],
   remote |-> [b \in Branches |-> NoCommit],
   objects |-> {}]

\* The commits reachable from a set of tips.
Reach(tips) == UNION {Ancestors(c) : c \in tips}
\* The tips of a branch table.
TipsOf(t) == {t[b] : b \in Branches}

HeadOf(r) ==
  IF r.active = "" THEN r.detached
  ELSE IF r.active = Master THEN r.master
  ELSE r.local[r.active]

\* git branch / git branch -r, as sets of names
LocalBranches(r) ==
  {b \in Branches : r.local[b] # NoCommit}
  \cup (IF r.master # NoCommit THEN {Master} ELSE {})
RemoteBranches(r) == {RemoteName(b) : b \in {x \in Branches : r.remote[x] # NoCommit}}

\* The commits present in the object store of a working copy.
Known(r) == r.objects

\* git rev-parse <ref>: the commit a ref name resolves to, NoCommit if none.
Resolve(r, ref) ==
  IF ref = "HEAD" THEN HeadOf(r)
  ELSE IF ref \in Branches THEN r.local[ref]
  ELSE IF ref = Master THEN r.master
  ELSE IF \E b \in Branches : RemoteName(b) = ref
       THEN r.remote[CHOOSE b \in Branches : RemoteName(b) = ref]
  ELSE NoCommit

\* git fetch: remote-tracking refs follow the upstream tips; a ref whose
\* upstream branch is gone is kept (no pruning); the object store gains the
\* history of every upstream tip and loses nothing.
Fetch(r, up) ==
  [r EXCEPT !.remote = [b \in Branches |-> IF up[b] # NoCommit THEN up[b] ELSE @[b]],
            !.objects = @ \cup Reach(TipsOf(up))]

\* An upstream repository: head, the branch its HEAD names ("" when there
\* is no repository, master as git --bare init leaves it, the development
\* branch once gitctl_create has pointed it there), and tips, the commits
\* of its mapped branches.
\* ssh <upstream-url> test -d <project>.git
UpstreamExists(up) == up.head # ""

\* git checkout <local branch>
CheckoutBranch(r, b) == [r EXCEPT !.active = b, !.detached = NoCommit]
\* git checkout <commit>
CheckoutCommit(r, c) == [r EXCEPT !.active = "", !.detached = c]

\* git reset --hard without the revision: the tree is cleaned, HEAD stays.
ResetHardNoRevision(r, c) == [r EXCEPT !.dirty = FALSE]

\* git reset --hard <commit>: moves the checked-out branch, or the detached HEAD
ResetHard(r, c) ==
  IF r.active = "" THEN [r EXCEPT !.detached = c, !.dirty = FALSE]
  ELSE IF r.active = Master THEN [r EXCEPT !.master = c, !.dirty = FALSE]
  ELSE [r EXCEPT !.local[r.active] = c, !.dirty = FALSE]

\* git branch -f --track <local> <remote>
BranchTrack(r, l, rem) == [r EXCEPT !.local[l] = Resolve(r, rem)]

\* git diff <a> <b> prints something exactly when the two trees differ.
DiffNonEmpty(a, b) == TreeOf(a) # TreeOf(b)


\* ------------------------------------------------- handler bookkeeping
\* The state one loop iteration threads through its statements: the working
\* copy, the LOG lines and native calls it has made, whether an exception
\* has escaped, and the project's treeish (pending may rewrite it).
Line(p, level, msg, arg) == [proj |-> p.name, level |-> level, msg |-> msg, arg |-> arg]
Ctx0(p, r) == [repo |-> r, log |-> <<>>, calls |-> <<>>, exc |-> FALSE, treeish |-> p.treeish]
Did(c, cmd, arg) == [c EXCEPT !.calls = Append(@, [cmd |-> cmd, arg |-> arg])]
Raise(c, cmd, arg) == [Did(c, cmd, arg) EXCEPT !.exc = TRUE]
Say(c, line) == [c EXCEPT !.log = Append(@, line)]

\* The native call the environment makes fail in one loop iteration (a lost
\* connection, a corrupt repository): a command and, when not "", its ref.
NoFault == [cmd |-> "none", arg |-> ""]
Faults ==
  {NoFault}
  \cup {[cmd |-> c, arg |-> ""] :
          c \in {"fetch", "rev_parse", "reset", "checkout", "diff", "clone", "log"}}
  \cup {[cmd |-> "pull", arg |-> b] : b \in Branches}
Fails(f, cmd, arg) == f.cmd = cmd /\ (f.arg = "" \/ f.arg = arg)
\* git fetch without a remote argument, as gitctl_update runs it: in a
\* working copy without a remote it does nothing and exits 0; with the
\* remote configured it fails when the upstream repository is not there.
\* The environment can make it fail in either case.
FetchFails(r, up, f) == Fails(f, "fetch", "") \/ (r.origin /\ ~UpstreamExists(up))
\* What that fetch leaves: nothing changes where no remote is configured.
FetchDefault(r, up) == IF r.origin THEN Fetch(r, up.tips) ELSE r
\* git fetch <upstream>, as the other commands run it: it fails when the
\* environment makes it fail, when the remote is not configured and when
\* its repository is not there.
FetchUpstreamFails(r, up, f) ==
  Fails(f, "fetch", "") \/ ~r.origin \/ ~UpstreamExists(up)

\* What the installed git writes to stderr next to a ref update it rejects
\* as not being a fast-forward: "(non fast forward)" before git 1.7.0,
\* "(non-fast-forward)" since.
RejectedTexts == {"non fast forward", "non-fast-forward"}
\* The environment of one iteration of update: the fault, and git's wording.
UpdateEnvs ==
  {[cmd |-> f.cmd, arg |-> f.arg, rejected |-> w] : f \in Faults, w \in RejectedTexts}
\* 'non fast forward' in stderr.lower()
SaysNonFastForward(stderr) == stderr = "non fast forward"

\* ------------------------------------------------------- gitctl_update
\* git pull <upstream> <local>:<local> with <local> checked out, no '+' in
\* the refspec: the local branch is moved only when that is a fast-forward.
Pull(r, up, l, f) ==
  IF Fails(f, "pull", l) \/ up[l] = NoCommit
  THEN [status |-> 1, stderr |-> "fatal", repo |-> r]
  ELSE IF IsAncestor(r.local[l], up[l])
  THEN [status |-> 0, stderr |-> "",
        repo |-> [r EXCEPT !.local[l] = up[l], !.objects = @ \cup Ancestors(up[l])]]
  ELSE [status |-> 1, stderr |-> f.rejected,
        repo |-> [r EXCEPT !.objects = @ \cup Ancestors(up[l])]]

\* The report after an existing checkout was brought up to date.
UpdateReport(p, c, ok, updated, treeish, pinned_at, verbose) ==
  IF ~ok THEN c
  ELSE IF is_sha1(treeish) /\ pinned_at # NoCommit
  THEN IF pinned_at = p.treeish.sha
       THEN IF verbose THEN Say(c, Line(p, "info", "OK", <<>>)) ELSE c
       ELSE Say(c, Line(p, "info", "CheckedOutRevision", <<treeish.sha>>))
  ELSE IF updated THEN Say(c, Line(p, "info", "Updated", <<>>))
  ELSE IF verbose THEN Say(c, Line(p, "info", "OK", <<>>))
  ELSE c

\* The pin taken with git checkout <revision> instead of a hard reset: HEAD
\* gets there too, but leaves the branch.
UpdatePinnedByCheckout(p, c, f, verbose) ==
  IF Fails(f, "rev_parse", "HEAD") THEN Raise(c, "rev_parse", "HEAD")
  ELSE
    LET pinned_at == HeadOf(c.repo)
        c1 == Did(c, "rev_parse", "HEAD")
    IN IF Fails(f, "reset", "") \/ p.treeish.sha \notin Known(c.repo)
       THEN Raise(c1, "reset", "")
       ELSE UpdateReport(p,
              [Did(c1, "reset", "") EXCEPT !.repo = CheckoutCommit(@, p.treeish.sha)],
              TRUE, FALSE, p.treeish, pinned_at, verbose)

\* The pin with HEAD read after the hard reset instead of before it.
UpdatePinnedReadAfterReset(p, c, f, verbose) ==
  IF Fails(f, "reset", "") \/ p.treeish.sha \notin Known(c.repo)
  THEN Raise(c, "reset", "")
  ELSE
    LET c1 == [Did(c, "reset", "") EXCEPT !.repo = ResetHard(@, p.treeish.sha)] IN
    IF Fails(f, "rev_parse", "HEAD") THEN Raise(c1, "rev_parse", "HEAD")
    ELSE UpdateReport(p, Did(c1, "rev_parse", "HEAD"),
                      TRUE, FALSE, p.treeish, HeadOf(c1.repo), verbose)

\* An explicit version pin: hard reset to the requested revision.
UpdatePinned(p, c, f, verbose) ==
  IF Fails(f, "rev_parse", "HEAD") THEN Raise(c, "rev_parse", "HEAD")
  ELSE
    LET pinned_at == HeadOf(c.repo)
        c1 == Did(c, "rev_parse", "HEAD")
    IN IF Fails(f, "reset", "") \/ p.treeish.sha \notin Known(c.repo)
       THEN Raise(c1, "reset", "")
       ELSE UpdateReport(p,
              [Did(c1, "reset", "") EXCEPT !.repo = ResetHard(@, p.treeish.sha)],
              TRUE, FALSE, p.treeish, pinned_at, verbose)

RECURSIVE UpdateBranches(_, _, _, _, _, _, _)
\* for remote, local in config['branches']: fast-forward what has changed.
\* st = [c, ok, updated]; the branch lists were read before the loop.
UpdateBranches(k, st, p, up, f, remote_branches, local_branches) ==
  IF k > Len(BranchMap) \/ st.c.exc THEN st
  ELSE
    LET remote == BranchMap[k][1]
        local == BranchMap[k][2]
        c == st.c
    IN
    IF ~(remote \in remote_branches /\ local \in local_branches)
    THEN UpdateBranches(k + 1, st, p, up, f, remote_branches, local_branches)
    ELSE IF Fails(f, "rev_parse", remote)
    THEN [st EXCEPT !.c = Raise(c, "rev_parse", remote)]
    ELSE IF Fails(f, "rev_parse", local)
    THEN [st EXCEPT !.c = Raise(Did(c, "rev_parse", remote), "rev_parse", local)]
    ELSE
      LET c2 == Did(Did(c, "rev_parse", remote), "rev_parse", local) IN
      IF Resolve(c.repo, remote) = Resolve(c.repo, local)
      THEN UpdateBranches(k + 1, [st EXCEPT !.c = c2], p, up, f,
                          remote_branches, local_branches)
      ELSE IF Fails(f, "checkout", local)
      THEN [st EXCEPT !.c = Raise(c2, "checkout", local)]
      ELSE
        LET c3 == [Did(c2, "checkout", local) EXCEPT !.repo = CheckoutBranch(@, local)]
            res == Pull(c3.repo, up.tips, local, f)
            c4 == [Did(c3, "pull", local) EXCEPT !.repo = res.repo]
            next ==
              IF res.status # 0
              THEN [c |-> IF SaysNonFastForward(res.stderr)
                          THEN Say(c4, Line(p, "warning", "FastForwardNotPossible", <<local>>))
                          ELSE Say(c4, Line(p, "critical", "UpdateFailure", <<local>>)),
                    ok |-> FALSE, updated |-> st.updated]
              ELSE [c |-> c4, ok |-> st.ok, updated |-> TRUE]
        IN UpdateBranches(k + 1, next, p, up, f, remote_branches, local_branches)

\* UpdateFloating without the checkout that ends it: the working copy stays
\* on the branch pulled last.
UpdateFloatingNoRestore(p, c, up, f, verbose) ==
  IF c.repo.active = "" THEN Raise(c, "symbolic_ref", "HEAD")
  ELSE
    LET treeish == c.repo.active
        st == UpdateBranches(1, [c |-> c, ok |-> TRUE, updated |-> FALSE], p, up, f,
                             RemoteBranches(c.repo), LocalBranches(c.repo))
    IN IF st.c.exc THEN st.c
       ELSE UpdateReport(p, st.c, st.ok, st.updated, Ref(treeish), NoCommit, verbose)

\* A dynamic branch pointer: pull every mapped branch, then go back to the
\* branch that was active.  active_branch fails on a detached HEAD.
UpdateFloating(p, c, up, f, verbose) ==
  IF c.repo.active = "" THEN Raise(c, "symbolic_ref", "HEAD")
  ELSE
    LET treeish == c.repo.active
        st == UpdateBranches(1, [c |-> c, ok |-> TRUE, updated |-> FALSE], p, up, f,
                             RemoteBranches(c.repo), LocalBranches(c.repo))
    IN IF st.c.exc THEN st.c
       ELSE IF Fails(f, "checkout", treeish) THEN Raise(st.c, "checkout", treeish)
       ELSE UpdateReport(p,
              [Did(st.c, "checkout", treeish) EXCEPT !.repo = CheckoutBranch(@, treeish)],
              st.ok, st.updated, Ref(treeish), NoCommit, verbose)

\* repository.is_dirty runs git diff HEAD, which fails when HEAD is unborn.
IsDirtyRaises(r) == HeadOf(r) = NoCommit

\* UpdateExisting without the dirty check: the working tree is never looked at.
UpdateExistingNoDirtyCheck(p, r, up, f, verbose) ==
  LET c0 == Ctx0(p, r) IN
  IF FetchFails(r, up, f) THEN Raise(c0, "fetch", "")
  ELSE
    LET c1 == [Did(c0, "fetch", "") EXCEPT !.repo = FetchDefault(@, up)] IN
    IF is_sha1(p.treeish) THEN UpdatePinned(p, c1, f, verbose)
    ELSE UpdateFloating(p, c1, up, f, verbose)

\* UpdateExisting with the `continue` after the dirty report left out.
UpdateExistingDirtyGoesOn(p, r, up, f, verbose) ==
  LET c0 == Ctx0(p, r) IN
  IF FetchFails(r, up, f) THEN Raise(c0, "fetch", "")
  ELSE
    LET c1 == [Did(c0, "fetch", "") EXCEPT !.repo = FetchDefault(@, up)]
        c2 == IF c1.repo.dirty THEN Say(c1, Line(p, "info", "Dirty", <<>>)) ELSE c1
    IN IF IsDirtyRaises(c1.repo) THEN Raise(c1, "diff", "HEAD")
       ELSE IF is_sha1(p.treeish) THEN UpdatePinned(p, c2, f, verbose)
       ELSE UpdateFloating(p, c2, up, f, verbose)

\* if os.path.exists(path): fetch, stop at a dirty tree, else pin or pull.
UpdateExisting(p, r, up, f, verbose) ==
  LET c0 == Ctx0(p, r) IN
  IF FetchFails(r, up, f) THEN Raise(c0, "fetch", "")
  ELSE
    LET c1 == [Did(c0, "fetch", "") EXCEPT !.repo = FetchDefault(@, up)] IN
    IF IsDirtyRaises(c1.repo) THEN Raise(c1, "diff", "HEAD")
    ELSE IF c1.repo.dirty THEN Say(c1, Line(p, "info", "Dirty", <<>>))
    ELSE IF is_sha1(p.treeish) THEN UpdatePinned(p, c1, f, verbose)
    ELSE UpdateFloating(p, c1, up, f, verbose)

\* The branch the upstream HEAD names: gitctl_create, when it gets to its
\* end, writes refs/heads/<development-branch> there, whether or not
\* upstream has that branch.
DefaultBranch(up) == up.head

\* git clone --no-checkout --origin <upstream> <url> <path>: HEAD is on the
\* branch the upstream HEAD names, which is the one local branch made (none,
\* and HEAD unborn, when upstream does not have it); the index is empty, so
\* the working copy counts as dirty until the first checkout.
Clone(up) ==
  [exists |-> TRUE, git |-> TRUE, origin |-> TRUE, dirty |-> TRUE,
   active |-> DefaultBranch(up), detached |-> NoCommit, master |-> NoCommit,
   local |-> [b \in Branches |-> IF b = DefaultBranch(up) THEN up.tips[b] ELSE NoCommit],
   remote |-> up.tips,
   objects |-> Reach(TipsOf(up.tips))]

\* A fresh clone left with the one branch git clone made.
TrackBranchesNone(k, c, remote_branches, local_branches) == c

RECURSIVE TrackBranches(_, _, _, _)
\* Set up the local tracking branches of a fresh clone.
TrackBranches(k, c, remote_branches, local_branches) ==
  IF k > Len(BranchMap) THEN c
  ELSE
    LET remote == BranchMap[k][1]
        local == BranchMap[k][2]
    IN IF remote \in remote_branches /\ local \notin local_branches
       THEN TrackBranches(k + 1,
              [Did(c, "branch_track", local) EXCEPT !.repo = BranchTrack(@, local, remote)],
              remote_branches, local_branches)
       ELSE TrackBranches(k + 1, c, remote_branches, local_branches)

\* git checkout <treeish> of a commit id or a local branch name
CanCheckout(r, t) ==
  IF is_sha1(t) THEN t.sha \in Known(r) ELSE t.ref \in LocalBranches(r)
CheckoutTreeish(r, t) ==
  IF is_sha1(t) THEN CheckoutCommit(r, t.sha) ELSE CheckoutBranch(r, t.ref)
\* The first checkout in a clone made with --no-checkout fills the index
\* and the working tree.
InitialCheckout(r, t) == [CheckoutTreeish(r, t) EXCEPT !.dirty = FALSE]

\* else: clone the repository, track the mapped branches, check out treeish.
UpdateClone(p, r, up, f) ==
  LET c0 == Ctx0(p, r) IN
  IF Fails(f, "clone", "") \/ ~UpstreamExists(up) THEN Raise(c0, "clone", "")
  ELSE
    LET c1 == [Did(c0, "clone", "") EXCEPT !.repo = Clone(up)]
        c2 == TrackBranches(1, c1, RemoteBranches(c1.repo), LocalBranches(c1.repo))
    IN IF Fails(f, "checkout", "") \/ ~CanCheckout(c2.repo, p.treeish)
       THEN Raise(c2, "checkout", "treeish")
       ELSE Say([Did(c2, "checkout", "treeish")
                   EXCEPT !.repo = InitialCheckout(@, p.treeish)],
                Line(p, "info", "Cloned", <<>>))

\* One iteration of gitctl_update's loop.  git.Repo fails on a path that
\* holds no repository.
UpdateProject(p, r, up, f, verbose) ==
  IF r.exists
  THEN IF ~r.git THEN Raise(Ctx0(p, r), "open", "")
       ELSE UpdateExisting(p, r, up, f, verbose)
  ELSE UpdateClone(p, r, up, f)

\* ------------------------------------------------------- gitctl_status
RECURSIVE StatusBranchesStopAtFirst(_, _, _, _, _)
\* The loop of gitctl_status leaving at the first branch out of sync.
StatusBranchesStopAtFirst(k, st, p, f, remote_branches) ==
  IF k > Len(BranchMap) \/ st.c.exc THEN st
  ELSE
    LET remote == BranchMap[k][1]
        local == BranchMap[k][2]
        c == st.c
    IN
    IF remote \notin remote_branches
    THEN StatusBranchesStopAtFirst(k + 1, st, p, f, remote_branches)
    ELSE IF Fails(f, "diff", local) \/ Resolve(c.repo, local) = NoCommit
    THEN [st EXCEPT !.c = Raise(c, "diff", local)]
    ELSE IF DiffNonEmpty(Resolve(c.repo, remote), Resolve(c.repo, local))
    THEN [c |-> Say(Did(c, "diff", local), Line(p, "info", "OutOfSync", <<local>>)),
          uptodate |-> FALSE]
    ELSE StatusBranchesStopAtFirst(k + 1, [st EXCEPT !.c = Did(c, "diff", local)],
                                   p, f, remote_branches)

RECURSIVE StatusBranches(_, _, _, _, _)
\* for remote, local in config['branches']: report each branch whose diff
\* against its remote is not empty.  st = [c, uptodate].
StatusBranches(k, st, p, f, remote_branches) ==
  IF k > Len(BranchMap) \/ st.c.exc THEN st
  ELSE
    LET remote == BranchMap[k][1]
        local == BranchMap[k][2]
        c == st.c
    IN
    IF remote \notin remote_branches
    THEN StatusBranches(k + 1, st, p, f, remote_branches)
    ELSE IF Fails(f, "diff", local) \/ Resolve(c.repo, local) = NoCommit
    THEN [st EXCEPT !.c = Raise(c, "diff", local)]
    ELSE IF DiffNonEmpty(Resolve(c.repo, remote), Resolve(c.repo, local))
    THEN StatusBranches(k + 1,
           [c |-> Say(Did(c, "diff", local), Line(p, "info", "OutOfSync", <<local>>)),
            uptodate |-> FALSE],
           p, f, remote_branches)
    ELSE StatusBranches(k + 1, [st EXCEPT !.c = Did(c, "diff", local)],
                        p, f, remote_branches)

\* One iteration of gitctl_status's loop.  git.Repo fails where there is no
\* repository.
StatusProject(p, r, up, f, a) ==
  LET c0 == Ctx0(p, r) IN
  IF ~r.git THEN Raise(c0, "open", "")
  ELSE IF ~a.no_fetch /\ FetchUpstreamFails(r, up, f) THEN Raise(c0, "fetch", Upstream)
  ELSE
    LET c1 == IF a.no_fetch THEN c0
              ELSE [Did(c0, "fetch", Upstream) EXCEPT !.repo = Fetch(@, up.tips)]
    IN
    IF IsDirtyRaises(c1.repo) THEN Raise(c1, "diff", "HEAD")
    ELSE IF c1.repo.dirty THEN Say(c1, Line(p, "info", "Dirty", <<>>))
    ELSE
      LET st == StatusBranches(1, [c |-> c1, uptodate |-> TRUE], p, f,
                               RemoteBranches(c1.repo))
      IN IF st.c.exc THEN st.c
         ELSE IF st.uptodate /\ a.verbose THEN Say(st.c, Line(p, "info", "OK", <<>>))
         ELSE st.c

\* ------------------------------------------------------ gitctl_pending
RECURSIVE RevList(_, _, _)
\* git log <from>..<to>: walk the history from `frontier` (newest first),
\* leaving out what is in `hidden`, the commits reachable from <from>.
RevList(frontier, seen, hidden) ==
  IF frontier = {} THEN <<>>
  ELSE
    LET c == CHOOSE x \in frontier : \A y \in frontier : y <= x
        rest == (frontier \cup Parents(c)) \ (seen \cup {c})
    IN IF c \in hidden THEN RevList(rest \ hidden, seen \cup {c}, hidden)
       ELSE <<c>> \o RevList(rest, seen \cup {c}, hidden)

\* git log <to> without the range: everything reachable from <to>.
GitLogNoRange(from, to) == RevList({to}, {}, {})

\* The lines of git log --pretty=oneline from..to
GitLogRange(from, to) == RevList({to}, {}, Ancestors(from))

RECURSIVE PendingBranches(_, _, _, _, _)
\* The out-of-sync check of the staging and development modes.
\* st = [c, skip_project]; remote_branches was read before the fetch.
PendingBranches(k, st, p, f, remote_branches) ==
  IF k > Len(BranchMap) \/ st.c.exc THEN st
  ELSE
    LET remote == BranchMap[k][1]
        local == BranchMap[k][2]
        c == st.c
    IN
    IF remote \notin remote_branches
    THEN PendingBranches(k + 1, st, p, f, remote_branches)
    ELSE IF Fails(f, "diff", local) \/ Resolve(c.repo, local) = NoCommit
    THEN [st EXCEPT !.c = Raise(c, "diff", local)]
    ELSE IF DiffNonEmpty(Resolve(c.repo, remote), Resolve(c.repo, local))
    THEN PendingBranches(k + 1,
           [c |-> Say(Did(c, "diff", local), Line(p, "warning", "OutOfSync", <<local>>)),
            skip_project |-> TRUE],
           p, f, remote_branches)
    ELSE PendingBranches(k + 1, [st EXCEPT !.c = Did(c, "diff", local)],
                         p, f, remote_branches)

\* assert_branch(branch): the warning it logs when the branch is missing
AssertBranch(c, p, local_branches, branch) ==
  IF branch \in local_branches THEN c
  ELSE Say(c, Line(p, "warning", "BranchDoesNotExist", <<branch>>))

\* PendingCompare rewriting the treeish in regenerate mode whatever the stage.
PendingCompareAnyStage(p, c, f, a, from, to) ==
  IF from # to
  THEN IF a.show_config
       THEN [c EXCEPT !.treeish = Sha(to)]
       ELSE IF Fails(f, "log", "") \/ from \notin Known(c.repo) \/ to \notin Known(c.repo)
       THEN Raise(c, "log", "")
       ELSE
         LET commits == Len(GitLogRange(from, to))
             c1 == Did(c, "log", "")
             c2 == IF a.stage = "production"
                   THEN Say(c1, Line(p, "info", "Ahead", <<ProductionBranch, commits, to>>))
                   ELSE IF a.stage = "staging"
                   THEN Say(c1, Line(p, "info", "Ahead",
                                     <<StagingBranch, commits, ProductionBranch>>))
                   ELSE Say(c1, Line(p, "info", "Ahead",
                                     <<DevelopmentBranch, commits, StagingBranch>>))
         IN IF a.diff THEN Say(Did(c2, "log", "patch"), Line(p, "info", "Patch", <<from, to>>))
            ELSE c2
  ELSE IF a.verbose /\ ~a.show_config THEN Say(c, Line(p, "info", "OK", <<>>))
  ELSE c

\* if from_ != to: rewrite the treeish or report the commit count; else OK.
PendingCompare(p, c, f, a, from, to) ==
  IF from # to
  THEN IF a.show_config /\ a.stage = "production"
       THEN [c EXCEPT !.treeish = Sha(to)]
       ELSE IF Fails(f, "log", "") \/ from \notin Known(c.repo) \/ to \notin Known(c.repo)
       THEN Raise(c, "log", "")
       ELSE
         LET commits == Len(GitLogRange(from, to))
             c1 == Did(c, "log", "")
             c2 == IF a.stage = "production"
                   THEN Say(c1, Line(p, "info", "Ahead", <<ProductionBranch, commits, to>>))
                   ELSE IF a.stage = "staging"
                   THEN Say(c1, Line(p, "info", "Ahead",
                                     <<StagingBranch, commits, ProductionBranch>>))
                   ELSE Say(c1, Line(p, "info", "Ahead",
                                     <<DevelopmentBranch, commits, StagingBranch>>))
         IN IF a.diff THEN Say(Did(c2, "log", "patch"), Line(p, "info", "Patch", <<from, to>>))
            ELSE c2
  ELSE IF a.verbose /\ ~a.show_config THEN Say(c, Line(p, "info", "OK", <<>>))
  ELSE c

\* PendingEndpoints with the production stage ending at the tip of the local
\* production branch.
PendingEndpointsLocalTip(p, c, f, a, local_branches) ==
  IF a.stage = "production"
  THEN IF ProductionBranch \notin local_branches
       THEN AssertBranch(c, p, local_branches, ProductionBranch)
       ELSE IF ~is_sha1(p.treeish)
       THEN Say(c, Line(p, "warning", "TreeishNotSha1", <<p.treeish.ref>>))
       ELSE IF Fails(f, "rev_parse", "treeish")
       THEN Raise(c, "rev_parse", "treeish")
       ELSE IF Fails(f, "rev_parse", ProductionBranch)
       THEN Raise(Did(c, "rev_parse", "treeish"), "rev_parse", ProductionBranch)
       ELSE PendingCompare(p,
              Did(Did(c, "rev_parse", "treeish"), "rev_parse", ProductionBranch),
              f, a, p.treeish.sha, Resolve(c.repo, ProductionBranch))
  ELSE
    LET b1 == IF a.stage = "staging" THEN ProductionBranch ELSE DevelopmentBranch
        from_branch == IF a.stage = "staging" THEN ProductionBranch ELSE StagingBranch
        to_branch == IF a.stage = "staging" THEN StagingBranch ELSE DevelopmentBranch
    IN IF b1 \notin local_branches THEN AssertBranch(c, p, local_branches, b1)
       ELSE IF StagingBranch \notin local_branches
       THEN AssertBranch(c, p, local_branches, StagingBranch)
       ELSE IF Fails(f, "rev_parse", from_branch)
       THEN Raise(c, "rev_parse", from_branch)
       ELSE IF Fails(f, "rev_parse", to_branch)
       THEN Raise(Did(c, "rev_parse", from_branch), "rev_parse", to_branch)
       ELSE PendingCompare(p,
              Did(Did(c, "rev_parse", from_branch), "rev_parse", to_branch),
              f, a, Resolve(c.repo, from_branch), Resolve(c.repo, to_branch))

\* Get the actual versions of the trees to be compared, then compare them.
PendingEndpoints(p, c, f, a, local_branches) ==
  IF a.stage = "production"
  THEN IF ProductionBranch \notin local_branches
       THEN AssertBranch(c, p, local_branches, ProductionBranch)
       ELSE IF ~is_sha1(p.treeish)
       THEN Say(c, Line(p, "warning", "TreeishNotSha1", <<p.treeish.ref>>))
       ELSE IF Fails(f, "rev_parse", "treeish")
       THEN Raise(c, "rev_parse", "treeish")
       ELSE IF Fails(f, "rev_parse", RemoteName(ProductionBranch))
               \/ Resolve(c.repo, RemoteName(ProductionBranch)) = NoCommit
       THEN Raise(Did(c, "rev_parse", "treeish"), "rev_parse", RemoteName(ProductionBranch))
       ELSE PendingCompare(p,
              Did(Did(c, "rev_parse", "treeish"), "rev_parse", RemoteName(ProductionBranch)),
              f, a, p.treeish.sha, Resolve(c.repo, RemoteName(ProductionBranch)))
  ELSE
    LET b1 == IF a.stage = "staging" THEN ProductionBranch ELSE DevelopmentBranch
        from_branch == IF a.stage = "staging" THEN ProductionBranch ELSE StagingBranch
        to_branch == IF a.stage = "staging" THEN StagingBranch ELSE DevelopmentBranch
    IN IF b1 \notin local_branches THEN AssertBranch(c, p, local_branches, b1)
       ELSE IF StagingBranch \notin local_branches
       THEN AssertBranch(c, p, local_branches, StagingBranch)
       ELSE IF Fails(f, "rev_parse", from_branch)
       THEN Raise(c, "rev_parse", from_branch)
       ELSE IF Fails(f, "rev_parse", to_branch)
       THEN Raise(Did(c, "rev_parse", from_branch), "rev_parse", to_branch)
       ELSE PendingCompare(p,
              Did(Did(c, "rev_parse", from_branch), "rev_parse", to_branch),
              f, a, Resolve(c.repo, from_branch), Resolve(c.repo, to_branch))

\* One iteration of gitctl_pending's loop.
PendingProject(p, r, up, f, a) ==
  LET c0 == Ctx0(p, r)
      local_branches == LocalBranches(r)
      remote_branches == RemoteBranches(r)
  IN
  IF ~r.git THEN Raise(c0, "open", "")
  ELSE IF DevelopmentBranch \notin local_branches
  THEN IF ~a.show_config /\ a.verbose THEN Say(c0, Line(p, "info", "Skipping", <<>>))
       ELSE c0
  ELSE IF IsDirtyRaises(r) THEN Raise(c0, "diff", "HEAD")
  ELSE IF r.dirty THEN Say(c0, Line(p, "info", "Dirty", <<>>))
  ELSE IF ~a.no_fetch /\ FetchUpstreamFails(r, up, f) THEN Raise(c0, "fetch", Upstream)
  ELSE
    LET c1 == IF a.no_fetch THEN c0
              ELSE [Did(c0, "fetch", Upstream) EXCEPT !.repo = Fetch(@, up.tips)]
        st == IF a.stage # "production"
              THEN PendingBranches(1, [c |-> c1, skip_project |-> FALSE], p, f,
                                   remote_branches)
              ELSE [c |-> c1, skip_project |-> FALSE]
    IN IF st.c.exc \/ st.skip_project THEN st.c
       ELSE PendingEndpoints(p, st.c, f, a, local_branches)

\* -------------------------------------------------------- gitctl_fetch
\* One iteration of gitctl_fetch's loop: git.Git(path) checks nothing, the
\* fetch fails where there is no repository.
FetchProject(p, r, up, f) ==
  LET c0 == Ctx0(p, r) IN
  IF FetchUpstreamFails(r, up, f) THEN Raise(c0, "fetch", Upstream)
  ELSE Say([Did(c0, "fetch", Upstream) EXCEPT !.repo = Fetch(@, up.tips)],
           Line(p, "info", "Fetched", <<>>))

\* ------------------------------------------------------- gitctl_branch
\* if args.checkout: a dirty tree is reported; a branch the project does
\* not have is warned about; active_branch, which fails on a detached HEAD,
\* is read next; the branch is checked out unless it is the active one and
\* verbose is set.
BranchCheckout(p, c, f, a) ==
  LET branch == a.checkout IN
  IF IsDirtyRaises(c.repo) THEN Raise(c, "diff", "HEAD")
  ELSE IF c.repo.dirty THEN Say(c, Line(p, "info", "Dirty", <<>>))
  ELSE IF branch \notin LocalBranches(c.repo)
  THEN Say(c, Line(p, "warning", "NoSuchBranch", <<branch>>))
  ELSE IF c.repo.active = "" THEN Raise(c, "symbolic_ref", "HEAD")
  ELSE IF branch = c.repo.active /\ a.verbose
  THEN Say(c, Line(p, "info", "AlreadyAt", <<branch>>))
  ELSE IF Fails(f, "checkout", "") THEN Raise(c, "checkout", branch)
  ELSE Say([Did(c, "checkout", branch) EXCEPT !.repo = CheckoutBranch(@, branch)],
           Line(p, "info", "CheckedOutBranch", <<branch>>))

\* One iteration of gitctl_branch's loop.  git.Repo fails where there is no
\* repository; --list without --checkout prints the active branch.
BranchProject(p, r, f, a) ==
  LET c0 == Ctx0(p, r) IN
  IF ~r.git THEN Raise(c0, "open", "")
  ELSE
    LET c1 == IF a.checkout = "" /\ a.list
              THEN IF r.active = "" THEN Raise(c0, "symbolic_ref", "HEAD")
                   ELSE Say(c0, Line(p, "info", "ActiveBranch", <<r.active>>))
              ELSE c0
    IN IF c1.exc \/ a.checkout = "" THEN c1
       ELSE BranchCheckout(p, c1, f, a)

\* ------------------------------------------------------- gitctl_create
\* The native calls of gitctl_create, in order: the two ssh commands at the
\* start and the one at the end go through gitctl.utils.run, the others
\* through git.Git.
CreateCalls ==
  << [cmd |-> "ssh_test", arg |-> ""], [cmd |-> "ssh_init", arg |-> ""],
     [cmd |-> "init", arg |-> ""], [cmd |-> "add", arg |-> "."],
     [cmd |-> "commit", arg |-> ""] >>
  \o [k \in 1..Len(BranchMap) |-> [cmd |-> "branch", arg |-> BranchMap[k][2]]]
  \o << [cmd |-> "remote_add", arg |-> Upstream] >>
  \o [k \in 1..Len(BranchMap) |-> [cmd |-> "push", arg |-> BranchMap[k][2]]]
  \o << [cmd |-> "fetch", arg |-> Upstream] >>
  \o [k \in 1..Len(BranchMap) |-> [cmd |-> "branch_track", arg |-> BranchMap[k][2]]]
  \o << [cmd |-> "checkout", arg |-> DevelopmentBranch],
        [cmd |-> "branch_delete", arg |-> Master],
        [cmd |-> "ssh_head", arg |-> DevelopmentBranch] >>

\* git init: an empty repository on an unborn master; the files of the
\* directory are uncommitted.  In a repository it changes nothing.
GitInit(r) ==
  IF r.git THEN r
  ELSE [r EXCEPT !.git = TRUE, !.dirty = TRUE, !.active = Master]

\* git commit in a repository without history: the initial commit, the
\* first of the history, on the branch HEAD names.
InitialCommit(r) ==
  [ResetHard(r, 1) EXCEPT !.objects = @ \cup {1}]

\* git push <upstream> <local>: the upstream branch and its remote-tracking
\* ref get the local tip.
Push(r, up, l) ==
  [repo |-> [r EXCEPT !.remote[l] = r.local[l]],
   up |-> [up EXCEPT !.tips[l] = r.local[l]]]
PushFails(r, up, l) ==
  \/ ~r.origin \/ ~UpstreamExists(up) \/ r.local[l] = NoCommit
  \/ up.tips[l] # NoCommit /\ ~IsAncestor(up.tips[l], r.local[l])

\* One call of gitctl_create on st = [repo, up, log, calls, exc, exit].
\* `fails`: the environment makes this call fail.  A git call that fails
\* raises; of the ssh commands only the status of the first is looked at.
CreateStep(p, st, call, fails) ==
  LET r == st.repo
      up == st.up
      l == call.arg
      did == Did(st, call.cmd, call.arg)
      raised == Raise(st, call.cmd, call.arg)
  IN
  CASE call.cmd = "ssh_test" ->
         IF fails \/ UpstreamExists(up)
         THEN [Say(did, Line(p, "error", "RemoteExists", <<>>)) EXCEPT !.exit = TRUE]
         ELSE did
    [] call.cmd = "ssh_init" ->
         Say(IF fails THEN did ELSE [did EXCEPT !.up.head = Master],
             Line(p, "info", "CreatedRemote", <<>>))
    [] call.cmd = "init" ->
         IF fails THEN raised ELSE [did EXCEPT !.repo = GitInit(r)]
    [] call.cmd = "add" ->
         IF fails THEN raised ELSE did
    [] call.cmd = "commit" ->
         IF fails \/ ~r.dirty THEN raised
         ELSE [did EXCEPT !.repo = InitialCommit(r)]
    [] call.cmd = "branch" ->
         IF fails \/ HeadOf(r) = NoCommit \/ r.local[l] # NoCommit THEN raised
         ELSE [did EXCEPT !.repo.local[l] = HeadOf(r)]
    [] call.cmd = "remote_add" ->
         IF fails \/ r.origin THEN raised
         ELSE [did EXCEPT !.repo.origin = TRUE]
    [] call.cmd = "push" ->
         IF fails \/ PushFails(r, up, l) THEN raised
         ELSE [did EXCEPT !.repo = Push(r, up, l).repo, !.up = Push(r, up, l).up]
    [] call.cmd = "fetch" ->
         IF fails \/ ~r.origin \/ ~UpstreamExists(up) THEN raised
         ELSE Say([did EXCEPT !.repo = Fetch(r, up.tips)],
                  Line(p, "info", "CreatedLocal", <<>>))
    [] call.cmd = "branch_track" ->
         IF fails \/ r.remote[l] = NoCommit \/ r.active = l THEN raised
         ELSE Say([did EXCEPT !.repo = BranchTrack(r, l, RemoteName(l))],
                  Line(p, "info", "Tracking", <<l, RemoteName(l)>>))
    [] call.cmd = "checkout" ->
         IF fails \/ r.local[l] = NoCommit THEN raised
         ELSE [did EXCEPT !.repo = CheckoutBranch(r, l)]
    [] call.cmd = "branch_delete" ->
         IF fails \/ r.master = NoCommit \/ r.active = Master THEN raised
         ELSE [did EXCEPT !.repo.master = NoCommit]
    [] call.cmd = "ssh_head" ->
         Say(IF fails \/ ~UpstreamExists(up) THEN did
             ELSE [did EXCEPT !.up.head = DevelopmentBranch],
             Line(p, "info", "CheckedOutDevelopment", <<DevelopmentBranch>>))

RECURSIVE CreateRun(_, _, _, _)
\* The calls of gitctl_create from the k-th on, until one raises or exits.
\* `fail` is the position of the call the environment makes fail, 0 for none.
CreateRun(p, k, st, fail) ==
  IF k > Len(CreateCalls) \/ st.exc \/ st.exit THEN st
  ELSE CreateRun(p, k + 1, CreateStep(p, st, CreateCalls[k], k = fail), fail)

\* gitctl_create on the directory of project p: leaves with sys.exit(1) when
\* the path is missing or the ssh test gives a non-zero status (the
\* repository is there, or the host was not reached); otherwise makes the
\* upstream repository and the local one, pushes the mapped branches, tracks
\* them, checks out development and points the upstream HEAD at it.  A git
\* call that fails on the way raises, and what was done before it stays.
CreateProject(p, r, up, fail) ==
  LET c0 == [repo |-> r, up |-> up, log |-> <<>>, calls |-> <<>>,
             exc |-> FALSE, exit |-> FALSE]
  IN IF ~r.exists
     THEN [Say(c0, Line(p, "critical", "PathMissing", <<>>)) EXCEPT !.exit = TRUE]
     ELSE CreateRun(p, 1, c0, fail)

\* ------------------------------------------------------------ the runs
VARIABLES
  externals,  \* the registry file: the projects, in order, as parse_externals reads them
  projects,   \* the project list of the running command (pending may rewrite a treeish)
  repo,       \* repo[i]: the working copy of project i
  upstream,   \* upstream[i]: the branch tips of project i's upstream repository
  upstream_head, \* upstream_head[i]: the branch the HEAD of that repository
              \* names, "" when the repository is not there
  args,       \* the arguments of the running (or last) command
  queue,      \* the projects the loop goes through, as indexes into projects
  idx,        \* position in queue of the project processed next
  pc,         \* "idle", "loop", "done", "aborted" (an exception left the
              \* handler) or "exited" (sys.exit)
  log,        \* the LOG lines of the running (or last) command
  calls,      \* the native git calls of the running (or last) command
  prev,       \* the previous command and, of an update, the projects it reported Cloned or OK
  runs        \* number of commands started

vars == <<externals, projects, repo, upstream, upstream_head, args, queue, idx, pc, log,
          calls, prev, runs>>

\* The upstream repository of project i, as the handlers get it.
Remote(i) == [head |-> upstream_head[i], tips |-> upstream[i]]

ProjectIds == 1..2
ProjectNames == <<"alpha", "beta">>

\* gitctl.utils.filter_projects: the projects named on the command line,
\* all of them when none is named.
filter_projects(ps, selection) ==
  SelectSeq([i \in 1..Len(ps) |-> i],
            LAMBDA i : selection = {} \/ ps[i].name \in selection)

\* The externals printed whenever show_config is set, whatever the stage.
AfterLoopAnyStage(a, ps) ==
  IF a.op = "pending" /\ a.show_config
  THEN << [proj |-> "", level |-> "info", msg |-> "Externals",
           arg |-> [i \in 1..Len(ps) |-> ps[i].treeish]] >>
  ELSE <<>>

\* After the loop: gitctl_pending prints the regenerated externals.
AfterLoop(a, ps) ==
  IF a.op = "pending" /\ a.show_config /\ a.stage = "production"
  THEN << [proj |-> "", level |-> "info", msg |-> "Externals",
           arg |-> [i \in 1..Len(ps) |-> ps[i].treeish]] >>
  ELSE <<>>

NoArgs ==
  [op |-> "none", verbose |-> FALSE, no_fetch |-> FALSE, stage |-> "",
   show_config |-> FALSE, diff |-> FALSE, project |-> {},
   list |-> FALSE, checkout |-> ""]

\* What is kept of the command that ran before: its name and, of an update,
\* the projects it reported Cloned or OK.
LastRun ==
  [op |-> args.op,
   said |-> IF args.op # "update" THEN {}
            ELSE {<<log[n].proj, log[n].msg>> :
                    n \in {m \in 1..Len(log) : log[m].msg \in {"Cloned", "OK"}}}]

\* A command starts: the registry is parsed, the projects are selected.
Start(a) ==
  /\ pc # "loop"
  /\ runs < MaxRuns
  /\ runs' = runs + 1
  /\ args' = a
  /\ projects' = externals
  /\ queue' = IF a.op = "pending" THEN [i \in 1..Len(externals) |-> i]
              ELSE filter_projects(externals, a.project)
  /\ idx' = 1
  /\ calls' = <<>>
  /\ prev' = LastRun
  /\ IF queue' = <<>>
     THEN pc' = "done" /\ log' = AfterLoop(a, externals)
     ELSE pc' = "loop" /\ log' = <<>>
  /\ UNCHANGED <<externals, repo, upstream, upstream_head>>

Selections == {{}, {ProjectNames[1]}}

StartUpdate ==
  \E v \in BOOLEAN, sel \in Selections :
    Start([NoArgs EXCEPT !.op = "update", !.verbose = v, !.project = sel])

StartStatus ==
  \E v \in BOOLEAN, nf \in BOOLEAN, sel \in Selections :
    Start([NoArgs EXCEPT !.op = "status", !.verbose = v, !.no_fetch = nf, !.project = sel])

StartPending ==
  \E v \in BOOLEAN, nf \in BOOLEAN, sc \in BOOLEAN, d \in BOOLEAN,
     stage \in {"production", "staging", "dev"} :
    Start([NoArgs EXCEPT !.op = "pending", !.verbose = v, !.no_fetch = nf,
                         !.show_config = sc, !.diff = d, !.stage = stage])

StartFetch ==
  \E sel \in Selections :
    Start([NoArgs EXCEPT !.op = "fetch", !.project = sel])

\* gitctl branch --list, or --checkout <branch>
StartBranch ==
  \E v \in BOOLEAN, l \in BOOLEAN, b \in {"", StagingBranch, ProductionBranch},
     sel \in Selections :
    Start([NoArgs EXCEPT !.op = "branch", !.verbose = v, !.list = l, !.checkout = b,
                         !.project = sel])

\* The loop takes the result of one iteration: an exception ends the
\* command, otherwise the loop goes on, and ends after the last project.
Step(i, res) ==
  /\ repo' = [repo EXCEPT ![i] = res.repo]
  /\ projects' = [projects EXCEPT ![i].treeish = res.treeish]
  /\ calls' = calls \o [n \in 1..Len(res.calls) |->
                          [proj |-> projects[i].name, cmd |-> res.calls[n].cmd,
                           arg |-> res.calls[n].arg]]
  /\ IF res.exc
     THEN /\ pc' = "aborted"
          /\ idx' = idx
          /\ log' = log \o res.log
     ELSE /\ idx' = idx + 1
          /\ pc' = IF idx = Len(queue) THEN "done" ELSE "loop"
          /\ log' = IF idx = Len(queue)
                    THEN log \o res.log \o AfterLoop(args, projects')
                    ELSE log \o res.log
  /\ UNCHANGED <<externals, upstream, upstream_head, args, queue, prev, runs>>

UpdateStep ==
  /\ pc = "loop" /\ args.op = "update"
  /\ \E f \in UpdateEnvs :
       Step(queue[idx],
            UpdateProject(projects[queue[idx]], repo[queue[idx]], Remote(queue[idx]),
                          f, args.verbose))

StatusStep ==
  /\ pc = "loop" /\ args.op = "status"
  /\ \E f \in Faults :
       Step(queue[idx],
            StatusProject(projects[queue[idx]], repo[queue[idx]], Remote(queue[idx]),
                          f, args))

PendingStep ==
  /\ pc = "loop" /\ args.op = "pending"
  /\ \E f \in Faults :
       Step(queue[idx],
            PendingProject(projects[queue[idx]], repo[queue[idx]], Remote(queue[idx]),
                           f, args))

FetchStep ==
  /\ pc = "loop" /\ args.op = "fetch"
  /\ \E f \in Faults :
       Step(queue[idx],
            FetchProject(projects[queue[idx]], repo[queue[idx]], Remote(queue[idx]), f))

BranchStep ==
  /\ pc = "loop" /\ args.op = "branch"
  /\ \E f \in Faults :
       Step(queue[idx],
            BranchProject(projects[queue[idx]], repo[queue[idx]], f, args))

\* gitctl create <directory of project i>: not a loop, one step; sys.exit
\* leaves pc at "exited", an exception at "aborted".
Create ==
  /\ pc # "loop"
  /\ runs < MaxRuns
  /\ \E i \in ProjectIds, fail \in 0..Len(CreateCalls) :
       LET res == CreateProject(externals[i], repo[i], Remote(i), fail) IN
       /\ args' = [NoArgs EXCEPT !.op = "create", !.project = {externals[i].name}]
       /\ repo' = [repo EXCEPT ![i] = res.repo]
       /\ upstream' = [upstream EXCEPT ![i] = res.up.tips]
       /\ upstream_head' = [upstream_head EXCEPT ![i] = res.up.head]
       /\ log' = res.log
       /\ calls' = [n \in 1..Len(res.calls) |->
                      [proj |-> externals[i].name, cmd |-> res.calls[n].cmd,
                       arg |-> res.calls[n].arg]]
       /\ pc' = IF res.exit THEN "exited" ELSE IF res.exc THEN "aborted" ELSE "done"
  /\ queue' = <<>>
  /\ idx' = 1
  /\ prev' = LastRun
  /\ runs' = runs + 1
  /\ UNCHANGED <<externals, projects>>

\* ------------------------------------------------------- initial states
Tips(d, s, p) ==
  [b \in Branches |-> IF b = DevelopmentBranch THEN d
                      ELSE IF b = StagingBranch THEN s ELSE p]

\* The upstream repositories: a pipeline whose newest commit is on
\* development only, one with nothing pending between its stages, and a
\* third-party project without a development branch.
UpLayouts == {Tips(NumCommits, 3, 2), Tips(3, 3, 3), Tips(0, 3, 2)}

\* The treeish of a registry entry: a branch, or a pinned revision.
Treeishes == {Ref(DevelopmentBranch), Sha(1), Sha(3)}

\* A working copy that tracks `rem` with local branches `loc`.
Checkout(rem, loc, active, detached, dirty) ==
  [exists |-> TRUE, git |-> TRUE, origin |-> TRUE, dirty |-> dirty, active |-> active,
   detached |-> detached, master |-> NoCommit, local |-> loc, remote |-> rem,
   objects |-> Reach(TipsOf(loc) \cup TipsOf(rem) \cup {detached})]

\* The remote-tracking refs of a checkout of `up`: fetched just now, last
\* fetched when every branch was at the first commit, or last fetched
\* before upstream had a staging branch.
Fetched(up) ==
  {up,
   [b \in Branches |-> IF up[b] = NoCommit THEN NoCommit ELSE 1],
   [up EXCEPT ![StagingBranch] = NoCommit]}

\* Its local branches: where upstream is, or with development left behind,
\* a commit of its own on staging, that commit between two branches left
\* behind, or no production branch.
LocalTips(up) ==
  {up,
   [up EXCEPT ![DevelopmentBranch] = 1],
   [up EXCEPT ![StagingBranch] = NumCommits],
   [up EXCEPT ![DevelopmentBranch] = 1, ![StagingBranch] = NumCommits,
              ![ProductionBranch] = 1],
   [up EXCEPT ![ProductionBranch] = NoCommit]}

\* The branch a working copy with local branches `loc` is on: the first
\* mapped branch it has.
OnBranch(loc) ==
  IF loc[DevelopmentBranch] # NoCommit THEN DevelopmentBranch
  ELSE IF loc[StagingBranch] # NoCommit THEN StagingBranch
  ELSE ProductionBranch

\* The working copies of a project: none yet; a clean one on its first
\* branch; a dirty one; for a pinned project, one with a detached HEAD.
Checkouts(t, up) ==
  {NoRepo}
  \cup {Checkout(rem, loc, OnBranch(loc), NoCommit, FALSE) :
          rem \in Fetched(up), loc \in LocalTips(up)}
  \cup {Checkout(rem, up, OnBranch(up), NoCommit, TRUE) : rem \in Fetched(up)}
  \cup IF is_sha1(t)
       THEN {Checkout(rem, up, "", c, FALSE) : rem \in Fetched(up), c \in {2, 3}}
       ELSE {}

\* A project whose upstream has rewritten production since the last fetch:
\* the revision the registry pins is in the object store, left there by that
\* fetch, and no upstream branch reaches it any more.
RewrittenWorlds ==
  { [treeish |-> Sha(3), up |-> Tips(0, 2, 4), head |-> DevelopmentBranch,
     repo |-> Checkout(Tips(0, 2, 3), Tips(2, 4, 1), ProductionBranch,
                       NoCommit, FALSE)] }

\* A project about to be created: no upstream repository, and a directory
\* that is not under git yet, or no directory; and one whose upstream a
\* gitctl_create that failed has left without a branch, not cloned yet.
NewWorlds ==
  { [treeish |-> Ref(DevelopmentBranch), up |-> Tips(0, 0, 0), head |-> "", repo |-> r] :
      r \in {NoRepo, [NoRepo EXCEPT !.exists = TRUE]} }
  \cup { [treeish |-> Ref(DevelopmentBranch), up |-> Tips(0, 0, 0), head |-> Master,
          repo |-> NoRepo] }

Worlds ==
  UNION {{[treeish |-> t, up |-> up, head |-> DevelopmentBranch, repo |-> r] :
            r \in Checkouts(t, up)} :
           t \in Treeishes, up \in UpLayouts}
  \cup RewrittenWorlds \cup NewWorlds

\* A second project in a plain state: a clean floating checkout in step
\* with its upstream, or a pinned project that is not cloned yet.
PlainWorlds ==
  { [treeish |-> Ref(DevelopmentBranch), up |-> Tips(3, 3, 3), head |-> DevelopmentBranch,
     repo |-> Checkout(Tips(3, 3, 3), Tips(3, 3, 3), DevelopmentBranch, NoCommit, FALSE)],
    [treeish |-> Sha(3), up |-> Tips(3, 3, 3), head |-> DevelopmentBranch,
     repo |-> NoRepo] }

Init ==
  \E i \in ProjectIds, rich \in Worlds, plain \in PlainWorlds :
    LET w == [j \in ProjectIds |-> IF j = i THEN rich ELSE plain] IN
    /\ externals = [j \in ProjectIds |-> [name |-> ProjectNames[j], treeish |-> w[j].treeish]]
    /\ projects = externals
    /\ repo = [j \in ProjectIds |-> w[j].repo]
    /\ upstream = [j \in ProjectIds |-> w[j].up]
    /\ upstream_head = [j \in ProjectIds |-> w[j].head]
    /\ args = NoArgs
    /\ queue = <<>>
    /\ idx = 1
    /\ pc = "idle"
    /\ log = <<>>
    /\ calls = <<>>
    /\ prev = [op |-> "none", said |-> {}]
    /\ runs = 0

\* ------------------------------------------------------ specifications
\* One command, any of the six, on any initial state; after a gitctl_create
\* that got past its two checks, further commands on what it has left.
Next ==
  \/ (runs = 0 \/ (args.op = "create" /\ pc \in {"done", "aborted"}))
     /\ (StartUpdate \/ StartStatus \/ StartPending
         \/ StartFetch \/ StartBranch \/ Create)
  \/ UpdateStep
  \/ StatusStep
  \/ PendingStep
  \/ FetchStep
  \/ BranchStep
Spec == Init /\ [][Next]_vars

\* update, run up to MaxRuns times in succession.
NextUpdate == StartUpdate \/ UpdateStep
SpecUpdate == Init /\ [][NextUpdate]_vars

\* One status command.
NextStatus == (runs = 0 /\ StartStatus) \/ StatusStep
SpecStatus == Init /\ [][NextStatus]_vars

\* One pending command.
NextPending == (runs = 0 /\ StartPending) \/ PendingStep
SpecPending == Init /\ [][NextPending]_vars

\* update and status, up to MaxRuns commands in succession.
NextSync == StartUpdate \/ StartStatus \/ UpdateStep \/ StatusStep
SpecSync == Init /\ [][NextSync]_vars

\* ------------------------------------------------- reading the state
\* Project i has gone through a whole iteration of the running command.
Completed(i) == \E k \in 1..Len(queue) : k < idx /\ queue[k] = i
\* The LOG lines about project i, and whether one says msg.
LinesOf(i) == SelectSeq(log, LAMBDA l : l.proj = ProjectNames[i])
Logged(i, msg) == \E n \in 1..Len(log) : log[n].proj = ProjectNames[i] /\ log[n].msg = msg
LoggedFor(i, msg, b) ==
  \E n \in 1..Len(log) :
    log[n].proj = ProjectNames[i] /\ log[n].msg = msg /\ log[n].arg[1] = b
\* The native calls made on project i.
Called(i, cmd) == \E n \in 1..Len(calls) : calls[n].proj = ProjectNames[i] /\ calls[n].cmd = cmd
CalledFor(i, cmd, arg) ==
  \E n \in 1..Len(calls) :
    calls[n].proj = ProjectNames[i] /\ calls[n].cmd = cmd /\ calls[n].arg = arg
CallCount(i, cmd) ==
  Cardinality({n \in 1..Len(calls) : calls[n].proj = ProjectNames[i] /\ calls[n].cmd = cmd})
\* repository.is_dirty is true of the working copy of project i.
Dirty(i) == repo[i].exists /\ repo[i].dirty /\ ~IsDirtyRaises(repo[i])
\* Project i was a dirty checkout when the command got to it (a checkout
\* the command has cloned itself was not).
WasDirty(i) == Dirty(i) /\ ~Called(i, "clone")
\* The running (or last) command is update, status or pending.
CoreOp == args.op \in {"update", "status", "pending"}

\* ------------------------------------------------------------- claims
\* C1 as stated: a dirty project is never fetched, hard-reset or checked
\* out by update, status or pending, is reported Dirty, and no branch of it
\* is compared.
C1_NeverFetched ==
  \A i \in ProjectIds :
    CoreOp /\ WasDirty(i) =>
      /\ ~Called(i, "fetch") /\ ~Called(i, "reset") /\ ~Called(i, "checkout")
      /\ ~Called(i, "rev_parse") /\ ~Called(i, "diff") /\ ~Called(i, "log")
      /\ Completed(i) => Logged(i, "Dirty")

\* C1 amended: a dirty project is never hard-reset, checked out, pulled or
\* compared, but update fetches it before it looks at the working tree and
\* so does status unless no_fetch is given; pending never fetches it.  When
\* its iteration completes the only line about it is Dirty, except that
\* pending skips a project without a local development branch first.
C1_DirtyIsolation ==
  \A i \in ProjectIds :
    CoreOp /\ WasDirty(i) =>
      /\ \A n \in 1..Len(calls) : calls[n].proj = ProjectNames[i] => calls[n].cmd = "fetch"
      /\ Called(i, "fetch") => args.op = "update" \/ (args.op = "status" /\ ~args.no_fetch)
      /\ Completed(i) =>
           /\ args.op = "update" => Called(i, "fetch")
           /\ args.op = "status" /\ ~args.no_fetch => Called(i, "fetch")
           /\ IF args.op = "pending" /\ DevelopmentBranch \notin LocalBranches(repo[i])
              THEN LinesOf(i) = IF args.verbose /\ ~args.show_config
                                THEN <<[proj |-> ProjectNames[i], level |-> "info",
                                        msg |-> "Skipping", arg |-> <<>>]>>
                                ELSE <<>>
              ELSE LinesOf(i) = <<[proj |-> ProjectNames[i], level |-> "info",
                                   msg |-> "Dirty", arg |-> <<>>]>>

\* C1 witness: update has fetched a dirty project and reported it Dirty.
C1_Witness ==
  \E i \in ProjectIds :
    /\ Dirty(i) /\ Completed(i) /\ args.op = "update"
    /\ Called(i, "fetch") /\ Logged(i, "Dirty")

\* C2 as stated: once update has processed a project whose treeish is a
\* SHA1, HEAD is that SHA1, whatever the checkout was before.
C2_PinRegardless ==
  \A i \in ProjectIds :
    args.op = "update" /\ Completed(i) /\ is_sha1(projects[i].treeish)
      => HeadOf(repo[i]) = projects[i].treeish.sha

\* C2 amended: once update has processed a project whose treeish is a SHA1
\* and whose checkout was missing or clean, HEAD is that SHA1; a checkout
\* with uncommitted changes is reported Dirty and not moved.
C2_PinInvariant ==
  \A i \in ProjectIds :
    args.op = "update" /\ Completed(i) /\ is_sha1(projects[i].treeish)
      => IF Dirty(i)
         THEN Logged(i, "Dirty") /\ ~Called(i, "reset") /\ ~Called(i, "checkout")
         ELSE repo[i].exists /\ HeadOf(repo[i]) = projects[i].treeish.sha

\* C2 witness: update has moved a clean checkout to its pin.
C2_Witness ==
  \E i \in ProjectIds :
    /\ args.op = "update" /\ Completed(i) /\ is_sha1(projects[i].treeish)
    /\ Logged(i, "CheckedOutRevision") /\ Called(i, "reset")
    /\ HeadOf(repo[i]) = projects[i].treeish.sha

\* C3: no failure while a project is processed stops the loop: a command
\* that has ended has gone through every project of its queue.
C3_FailureIsolation ==
  pc \in {"done", "aborted"} => idx = Len(queue) + 1

\* --- floating-mode update, read from the state after the iteration
\* Project i went through the floating branch of update: an existing,
\* clean checkout whose treeish is not a SHA1.
FloatingUpdated(i) ==
  /\ args.op = "update" /\ Completed(i)
  /\ ~is_sha1(projects[i].treeish)
  /\ ~Logged(i, "Cloned") /\ ~Dirty(i)
\* The mapped branches that were pulled, those whose pull failed (as a
\* conflict or fatally), and those that were fast-forwarded.
Pulled(i) == {b \in Branches : CalledFor(i, "pull", b)}
Conflicted(i) == {b \in Branches : LoggedFor(i, "FastForwardNotPossible", b)}
Fatal(i) == {b \in Branches : LoggedFor(i, "UpdateFailure", b)}
FastForwarded(i) == Pulled(i) \ (Conflicted(i) \cup Fatal(i))

\* C4: in a floating-mode update every local branch ends at its old tip or
\* at the tip of its remote (no merge commit is made); a mapped branch that
\* cannot fast-forward keeps its tip and is reported as a conflict; every
\* other mapped branch that differs from its remote and can fast-forward is
\* moved to the remote tip in the same iteration (unless its own pull
\* failed).
C4_NoImplicitMerges ==
  [][ \A i \in ProjectIds :
      (/\ pc = "loop" /\ args.op = "update" /\ idx' = idx + 1 /\ i = queue[idx]
       /\ repo[i].exists /\ ~repo[i].dirty /\ ~is_sha1(projects[i].treeish))
      =>
      LET old == repo[i].local
          new == repo'[i].local
          rem == repo'[i].remote
          mapped(b) == rem[b] # NoCommit /\ old[b] # NoCommit /\ rem[b] # old[b]
          said(msg, b) == \E n \in (Len(log) + 1)..Len(log') :
                            log'[n].msg = msg /\ log'[n].arg[1] = b
      IN \A b \in Branches :
           /\ new[b] \in {old[b], rem[b]}
           /\ mapped(b) /\ ~IsAncestor(old[b], rem[b])
                => new[b] = old[b] /\ said("FastForwardNotPossible", b)
           /\ mapped(b) /\ IsAncestor(old[b], rem[b]) /\ ~said("UpdateFailure", b)
                => new[b] = rem[b]
    ]_vars

\* C5: the project is reported Updated when a mapped branch was
\* fast-forwarded and no pull failed fatally, a conflict on another branch
\* notwithstanding, and up to date (the OK line, in verbose mode) otherwise.
C5_ConflictKeepsVerdict ==
  \A i \in ProjectIds :
    FloatingUpdated(i) =>
      /\ Logged(i, "Updated") <=> (FastForwarded(i) # {} /\ Fatal(i) = {})
      /\ args.verbose /\ ~Logged(i, "Updated") => Logged(i, "OK")

\* --- primary lines and sub-events
PrimaryMsgs == {"Dirty", "OK", "Updated", "CheckedOutRevision", "Cloned", "Skipping", "Ahead"}
PrimaryCount(i) ==
  Cardinality({n \in 1..Len(log) :
                 log[n].proj = ProjectNames[i] /\ log[n].msg \in PrimaryMsgs})
\* C6: in update, status and pending every processed project gets exactly
\* one primary status line, whatever sub-events were logged for it.
C6_ExactlyOneLine ==
  \A i \in ProjectIds : CoreOp /\ Completed(i) => PrimaryCount(i) = 1

\* --- update on a project that is in step with upstream
\* A clean checkout that is synchronized: pinned and HEAD at the pin, or
\* floating, on a branch, with every local branch that has an upstream
\* counterpart at the upstream tip.
Synced(i) ==
  /\ repo[i].exists /\ ~repo[i].dirty
  /\ IF is_sha1(projects[i].treeish)
     THEN HeadOf(repo[i]) = projects[i].treeish.sha
     ELSE /\ repo[i].active # ""
          /\ \A b \in Branches :
               repo[i].local[b] # NoCommit /\ upstream[i][b] # NoCommit
                 => repo[i].local[b] = upstream[i][b]

\* C7: an update iteration on a clean, synchronized project leaves HEAD, the
\* checked-out branch and every local branch tip as they were, reports
\* nothing but up to date (the OK line, printed in verbose mode), and leaves
\* the project synchronized: so does the iteration of the next update.
C7_Idempotence ==
  [][ \A i \in ProjectIds :
      (/\ pc = "loop" /\ args.op = "update" /\ idx' = idx + 1
       /\ i = queue[idx] /\ Synced(i))
      =>
      /\ repo'[i].local = repo[i].local
      /\ repo'[i].active = repo[i].active
      /\ HeadOf(repo'[i]) = HeadOf(repo[i])
      /\ Synced(i)'
      /\ SubSeq(log', Len(log) + 1, Len(log')) =
           IF args.verbose
           THEN <<[proj |-> ProjectNames[i], level |-> "info", msg |-> "OK", arg |-> <<>>]>>
           ELSE <<>>
    ]_vars

\* C7 witness: the second of two updates in succession has processed a
\* synchronized project that the first one reported up to date, and
\* reported it up to date again.
C7_Witness ==
  \E i \in ProjectIds :
    /\ runs = 2 /\ args.op = "update" /\ prev.op = "update"
    /\ <<ProjectNames[i], "OK">> \in prev.said
    /\ Completed(i) /\ Synced(i) /\ Logged(i, "OK")

\* --- pending
\* The endpoints gitctl_pending compares for project i, read from the state.
FromOf(i) ==
  IF args.stage = "production" THEN externals[i].treeish.sha
  ELSE IF args.stage = "staging" THEN repo[i].local[ProductionBranch]
  ELSE repo[i].local[StagingBranch]
ToOf(i) ==
  IF args.stage = "production" THEN repo[i].remote[ProductionBranch]
  ELSE IF args.stage = "staging" THEN repo[i].local[StagingBranch]
  ELSE repo[i].local[DevelopmentBranch]
\* Project i got as far as the comparison of its two resolved endpoints.
Resolved(i) == args.op = "pending" /\ Completed(i) /\ CallCount(i, "rev_parse") = 2
AheadLines(i) ==
  {n \in 1..Len(log) : log[n].proj = ProjectNames[i] /\ log[n].msg = "Ahead"}

\* C8: for a project whose endpoints are resolved, equal endpoints give up
\* to date (the OK line, in verbose mode) and no count; otherwise the count
\* reported is the number of commits reachable from `to` and not from `from`
\* (and it is reported once, unless the treeish is being regenerated).
C8_PromotionCorrectness ==
  \A i \in ProjectIds :
    args.op = "pending" =>
      /\ \A n \in AheadLines(i) :
           /\ Resolved(i) /\ FromOf(i) # ToOf(i)
           /\ log[n].arg[2] = Cardinality(Ancestors(ToOf(i)) \ Ancestors(FromOf(i)))
      /\ Resolved(i) /\ FromOf(i) = ToOf(i)
           => /\ AheadLines(i) = {}
              /\ Logged(i, "OK") <=> (args.verbose /\ ~args.show_config)
      /\ Resolved(i) /\ FromOf(i) # ToOf(i)
           /\ ~(args.show_config /\ args.stage = "production")
           => Cardinality(AheadLines(i)) = 1

\* C8 witness: pending has reported a project two commits ahead.
C8_Witness ==
  \E i \in ProjectIds :
    /\ Resolved(i)
    /\ \E n \in AheadLines(i) : log[n].arg[2] = 2
    /\ Cardinality(Ancestors(ToOf(i)) \ Ancestors(FromOf(i))) = 2

\* C9 as stated: in regenerate mode of pending(production), a clean pinned
\* project whose pin differs from the tip of its production branch gets
\* that tip as its treeish, and no commit count is reported for it; the
\* project list is printed once, after the last project, and only when
\* regenerate mode and the production stage are both set.
C9_RegenerateAnyPinned ==
  LET regen == args.op = "pending" /\ args.show_config /\ args.stage = "production"
      printed == {n \in 1..Len(log) : log[n].msg = "Externals"}
  IN
  /\ \A i \in ProjectIds :
       (/\ regen /\ Completed(i) /\ ~Dirty(i)
        /\ is_sha1(externals[i].treeish)
        /\ repo[i].local[ProductionBranch] # NoCommit
        /\ externals[i].treeish.sha # repo[i].local[ProductionBranch])
       => /\ projects[i].treeish = Sha(repo[i].local[ProductionBranch])
          /\ AheadLines(i) = {}
  /\ Cardinality(printed) <= 1
  /\ printed # {} =>
       /\ regen /\ pc = "done"
       /\ printed = {Len(log)}
       /\ log[Len(log)].arg = [i \in 1..Len(projects) |-> projects[i].treeish]
  /\ args.op = "pending" /\ pc = "done" /\ regen => printed # {}

\* C9 amended: in regenerate mode of pending(production), a clean pinned
\* project that has the development and production branches locally and
\* whose pin differs from the tip of the remote-tracking production branch
\* gets that tip as its treeish, and no commit count is computed or
\* reported for it; the project list is printed once, after the last
\* project, and only when regenerate mode and the production stage are both
\* set.
C9_Regenerate ==
  LET regen == args.op = "pending" /\ args.show_config /\ args.stage = "production"
      printed == {n \in 1..Len(log) : log[n].msg = "Externals"}
  IN
  /\ \A i \in ProjectIds :
       (/\ regen /\ Completed(i) /\ ~Dirty(i)
        /\ is_sha1(externals[i].treeish)
        /\ {DevelopmentBranch, ProductionBranch} \subseteq LocalBranches(repo[i])
        /\ externals[i].treeish.sha # repo[i].remote[ProductionBranch])
       => /\ projects[i].treeish = Sha(repo[i].remote[ProductionBranch])
          /\ AheadLines(i) = {}
          /\ ~Called(i, "log")
  /\ Cardinality(printed) <= 1
  /\ printed # {} =>
       /\ regen /\ pc = "done"
       /\ printed = {Len(log)}
       /\ log[Len(log)].arg = [i \in 1..Len(projects) |-> projects[i].treeish]
  /\ args.op = "pending" /\ pc = "done" /\ regen => printed # {}

\* C9 witness: regenerate mode has rewritten a pin to the remote-tracking
\* production tip, which the local production branch is not at, and
\* printed the list.
C9_Witness ==
  /\ args.op = "pending" /\ pc = "done"
  /\ \E i \in ProjectIds :
       /\ projects[i].treeish # externals[i].treeish
       /\ projects[i].treeish = Sha(repo[i].remote[ProductionBranch])
       /\ repo[i].remote[ProductionBranch] # repo[i].local[ProductionBranch]
  /\ \E n \in 1..Len(log) : log[n].msg = "Externals"

\* --- clone, then status
ClonedBefore(i) == prev.op = "update" /\ <<ProjectNames[i], "Cloned">> \in prev.said

\* C10: update on a project without a local path clones it, leaves a local
\* branch at the tip of every mapped remote branch that exists, and checks
\* out the treeish; the status command run next finds no mapped branch of
\* it out of sync and gives the OK verdict (the OK line, in verbose mode).
C10_CloneThenStatus ==
  \A i \in ProjectIds :
    /\ args.op = "update" /\ Logged(i, "Cloned")
         => /\ CalledFor(i, "clone", "")
            /\ repo[i].exists /\ ~repo[i].dirty
            /\ \A b \in Branches :
                 upstream[i][b] # NoCommit
                   => repo[i].remote[b] = upstream[i][b] /\ repo[i].local[b] = upstream[i][b]
            /\ IF is_sha1(projects[i].treeish)
               THEN repo[i].active = "" /\ HeadOf(repo[i]) = projects[i].treeish.sha
               ELSE repo[i].active = projects[i].treeish.ref
    /\ args.op = "status" /\ ClonedBefore(i) /\ Completed(i)
         => /\ ~Logged(i, "OutOfSync") /\ ~Logged(i, "Dirty")
            /\ Logged(i, "OK") <=> args.verbose

\* C10 witness: status has reported OK for a project the update before it
\* had cloned.
C10_Witness ==
  \E i \in ProjectIds :
    /\ args.op = "status" /\ ClonedBefore(i) /\ Completed(i)
    /\ CallCount(i, "diff") >= 2 /\ Logged(i, "OK")

\* --- update on a dirty checkout
\* C11: an update iteration on an existing checkout with uncommitted changes
\* makes no native call but the fetch, leaves HEAD, the checked-out branch,
\* every local branch tip and the uncommitted changes as they were, and,
\* when it completes, has logged the Dirty line and nothing else.
C11_DirtyFrame ==
  [][ \A i \in ProjectIds :
      (/\ pc = "loop" /\ args.op = "update" /\ i = queue[idx]
       /\ repo[i].exists /\ repo[i].dirty /\ ~IsDirtyRaises(repo[i]))
      =>
      /\ repo'[i].local = repo[i].local
      /\ repo'[i].active = repo[i].active
      /\ HeadOf(repo'[i]) = HeadOf(repo[i])
      /\ repo'[i].dirty
      /\ \A n \in (Len(calls) + 1)..Len(calls') : calls'[n].cmd = "fetch"
      /\ idx' = idx + 1 =>
           /\ SubSeq(calls', Len(calls) + 1, Len(calls')) =
                <<[proj |-> ProjectNames[i], cmd |-> "fetch", arg |-> ""]>>
           /\ repo'[i].remote = upstream[i]
           /\ SubSeq(log', Len(log) + 1, Len(log')) =
                <<[proj |-> ProjectNames[i], level |-> "info", msg |-> "Dirty", arg |-> <<>>]>>
    ]_vars

\* C11 witness: update is through with a dirty checkout: it was fetched,
\* reported Dirty, and is still dirty and on its branch.
C11_Witness ==
  \E i \in ProjectIds :
    /\ args.op = "update" /\ Completed(i) /\ Dirty(i)
    /\ repo[i].active # "" /\ repo[i].remote = upstream[i]
    /\ Len(LinesOf(i)) = 1 /\ LinesOf(i)[1].msg = "Dirty"
    /\ CallCount(i, "fetch") = 1
    /\ \A n \in 1..Len(calls) : calls[n].proj = ProjectNames[i] => calls[n].cmd = "fetch"

\* --- update on a clean pinned checkout
\* C12: an update iteration on a clean existing checkout of a pinned project
\* reports by the commit HEAD was at before the hard reset: the revision
\* checked out when that commit differs from the treeish, up to date (the OK
\* line, printed in verbose mode) when it is the treeish; where the mapped
\* branches are, locally, upstream or in the remote-tracking refs, plays no
\* part.  HEAD is at the treeish afterwards.
C12_PinnedOutcome ==
  [][ \A i \in ProjectIds :
      (/\ pc = "loop" /\ args.op = "update" /\ i = queue[idx] /\ idx' = idx + 1
       /\ repo[i].exists /\ ~repo[i].dirty /\ is_sha1(projects[i].treeish))
      =>
      /\ HeadOf(repo'[i]) = projects[i].treeish.sha
      /\ SubSeq(log', Len(log) + 1, Len(log')) =
           IF HeadOf(repo[i]) # projects[i].treeish.sha
           THEN <<[proj |-> ProjectNames[i], level |-> "info",
                   msg |-> "CheckedOutRevision", arg |-> <<projects[i].treeish.sha>>]>>
           ELSE IF args.verbose
           THEN <<[proj |-> ProjectNames[i], level |-> "info", msg |-> "OK", arg |-> <<>>]>>
           ELSE <<>>
    ]_vars

\* C12 witness: update has moved a pinned checkout to its revision and
\* reported it, while a mapped branch of it is not where upstream is.
C12_Witness ==
  \E i \in ProjectIds :
    /\ args.op = "update" /\ Completed(i) /\ is_sha1(projects[i].treeish)
    /\ CallCount(i, "reset") = 1 /\ Logged(i, "CheckedOutRevision")
    /\ HeadOf(repo[i]) = projects[i].treeish.sha
    /\ \E b \in Branches : repo[i].local[b] # upstream[i][b]

\* --- floating-mode update: the branch left checked out
\* C13: an update iteration on a clean existing checkout of a floating
\* project that gets through all mapped branches, whatever became of each
\* (skipped, fast-forwarded, conflict, fatal pull), ends with the checkout
\* of the branch that was active before it, and leaves that branch active.
C13_RestoreActiveBranch ==
  [][ \A i \in ProjectIds :
      (/\ pc = "loop" /\ args.op = "update" /\ i = queue[idx] /\ idx' = idx + 1
       /\ repo[i].exists /\ ~repo[i].dirty /\ ~is_sha1(projects[i].treeish))
      =>
      /\ repo[i].active # ""
      /\ repo'[i].active = repo[i].active
      /\ repo'[i].detached = NoCommit
      /\ calls'[Len(calls')] =
           [proj |-> ProjectNames[i], cmd |-> "checkout", arg |-> repo[i].active]
    ]_vars

\* C13 witness: a floating update has switched to other branches to pull
\* them, one fast-forwarded and one left in conflict, and the checkout is
\* on a branch that was not the last one pulled.
C13_Witness ==
  \E i \in ProjectIds :
    /\ FloatingUpdated(i)
    /\ FastForwarded(i) # {} /\ Conflicted(i) # {}
    /\ repo[i].active # ""
    /\ \E n \in 1..Len(calls) :
         /\ calls[n].proj = ProjectNames[i] /\ calls[n].cmd = "pull"
         /\ calls[n].arg # repo[i].active
         /\ \A m \in (n + 1)..Len(calls) :
              calls[m].proj = ProjectNames[i] => calls[m].cmd # "pull"

\* --- pending: the out-of-sync guard of the staging and development modes
\* A mapped pair of project i whose local branch differs from its
\* remote-tracking branch, as the refs stand now.
Stale(i) ==
  {b \in Branches :
     /\ repo[i].local[b] # NoCommit /\ repo[i].remote[b] # NoCommit
     /\ DiffNonEmpty(repo[i].remote[b], repo[i].local[b])}

\* C14: pending for the staging or development stage, through with a clean
\* project that has the development branch: if, as the refs stand after the
\* fetch, a mapped local branch differs from its remote counterpart, the
\* project has the out-of-sync warning and neither a commit count nor OK.
C14_StaleBranchGuard ==
  \A i \in ProjectIds :
    (/\ args.op = "pending" /\ args.stage \in {"staging", "dev"}
     /\ Completed(i) /\ ~Dirty(i)
     /\ DevelopmentBranch \in LocalBranches(repo[i])
     /\ Stale(i) # {})
    => /\ Logged(i, "OutOfSync")
       /\ AheadLines(i) = {}
       /\ ~Logged(i, "OK")

\* --- pending(production): the two endpoints
\* Pending for the production stage is through with project i, which is
\* clean and has the development and production branches locally.
ProductionCompared(i) ==
  /\ args.op = "pending" /\ args.stage = "production"
  /\ Completed(i) /\ ~Dirty(i)
  /\ {DevelopmentBranch, ProductionBranch} \subseteq LocalBranches(repo[i])
\* What pending(production) leaves behind for a pinned project compared
\* from its pin to the commit `to`.
ComparedTo(i, to) ==
  LET from == externals[i].treeish.sha IN
  IF from = to
  THEN /\ AheadLines(i) = {}
       /\ projects[i].treeish = externals[i].treeish
       /\ Logged(i, "OK") <=> (args.verbose /\ ~args.show_config)
  ELSE IF args.show_config
  THEN AheadLines(i) = {} /\ projects[i].treeish = Sha(to)
  ELSE /\ Cardinality(AheadLines(i)) = 1
       /\ \A n \in AheadLines(i) :
            log[n].arg = <<ProductionBranch,
                           Cardinality(Ancestors(to) \ Ancestors(from)), to>>
\* A project whose treeish is not a SHA1 is warned about and skipped.
NotPinnedSkipped(i) ==
  /\ Logged(i, "TreeishNotSha1")
  /\ AheadLines(i) = {} /\ ~Logged(i, "OK")
  /\ CallCount(i, "rev_parse") = 0
  /\ projects[i].treeish = externals[i].treeish

\* C15 as stated: pending(production) compares the pin of a project with the
\* tip of its local production branch; a project whose treeish is not a
\* SHA1 is warned about and skipped.
C15_LocalProductionTip ==
  \A i \in ProjectIds :
    ProductionCompared(i) =>
      IF is_sha1(externals[i].treeish)
      THEN ComparedTo(i, repo[i].local[ProductionBranch])
      ELSE NotPinnedSkipped(i)

\* C15 amended: pending(production) compares the pin of a project with the
\* tip of the remote-tracking branch of the production branch, as the fetch
\* left it; the local production branch only has to exist.  A project whose
\* treeish is not a SHA1 is warned about and skipped.
C15_RemoteProductionTip ==
  \A i \in ProjectIds :
    ProductionCompared(i) =>
      IF is_sha1(externals[i].treeish)
      THEN ComparedTo(i, repo[i].remote[ProductionBranch])
      ELSE NotPinnedSkipped(i)

\* C15 witness: the pin is the tip of the local production branch, which is
\* behind upstream, and pending(production) has reported the production
\* branch ahead of the pin, at the upstream tip.
C15_Witness ==
  \E i \in ProjectIds :
    /\ ProductionCompared(i) /\ is_sha1(externals[i].treeish)
    /\ externals[i].treeish.sha = repo[i].local[ProductionBranch]
    /\ repo[i].remote[ProductionBranch] # repo[i].local[ProductionBranch]
    /\ \E n \in AheadLines(i) : log[n].arg[3] = repo[i].remote[ProductionBranch]

\* --- status: the verdict
\* The mapped pairs of project i whose remote branch exists and whose local
\* branch differs from it, as the refs stand now.
OutOfSync(i) ==
  {b \in Branches :
     /\ repo[i].remote[b] # NoCommit
     /\ DiffNonEmpty(repo[i].remote[b], repo[i].local[b])}

\* C16: status, through with a clean project, has reported every mapped
\* branch that is out of sync with its existing remote branch, each once
\* and no other, and has reported OK only if there is none (and, the OK
\* line being printed in verbose mode, whenever there is none and verbose
\* is set).
C16_StatusVerdict ==
  \A i \in ProjectIds :
    args.op = "status" /\ Completed(i) /\ ~Dirty(i) =>
      /\ \A b \in Branches : LoggedFor(i, "OutOfSync", b) <=> b \in OutOfSync(i)
      /\ Cardinality({n \in 1..Len(log) :
                        log[n].proj = ProjectNames[i] /\ log[n].msg = "OutOfSync"})
           = Cardinality(OutOfSync(i))
      /\ Logged(i, "OK") => OutOfSync(i) = {}
      /\ OutOfSync(i) = {} /\ args.verbose => Logged(i, "OK")

\* C16 witness: status has reported two branches of a project out of sync
\* in verbose mode, and no OK for it.
C16_Witness ==
  \E i \in ProjectIds :
    /\ args.op = "status" /\ args.verbose /\ Completed(i) /\ ~Dirty(i)
    /\ Cardinality(OutOfSync(i)) >= 2
    /\ \A b \in OutOfSync(i) : LoggedFor(i, "OutOfSync", b)
    /\ ~Logged(i, "OK")

\* --- pending: what may happen to the project list
\* C17: the project list of pending keeps its length and the order of its
\* names; a treeish in it differs from the registry's only in regenerate
\* mode for the production stage, for a clean project with the development
\* and production branches and a SHA1 pin whose two endpoints were resolved
\* and differ, and then it is the tip compared to.
C17_TreeishFrame ==
  /\ Len(projects) = Len(externals)
  /\ \A i \in ProjectIds :
       /\ projects[i].name = externals[i].name
       /\ projects[i].treeish # externals[i].treeish =>
            /\ args.op = "pending" /\ args.show_config /\ args.stage = "production"
            /\ Completed(i) /\ ~Dirty(i)
            /\ {DevelopmentBranch, ProductionBranch} \subseteq LocalBranches(repo[i])
            /\ is_sha1(externals[i].treeish)
            /\ CallCount(i, "rev_parse") = 2
            /\ externals[i].treeish.sha # repo[i].remote[ProductionBranch]
            /\ projects[i].treeish = Sha(repo[i].remote[ProductionBranch])

\* C17 witness: pending in regenerate mode is done: it has rewritten the
\* pin of one project and skipped the other, whose treeish is a branch,
\* with a warning and its treeish as it was.
C17_Witness ==
  /\ args.op = "pending" /\ pc = "done" /\ args.show_config
  /\ \E i, j \in ProjectIds :
       /\ i # j
       /\ projects[i].treeish # externals[i].treeish
       /\ Logged(j, "TreeishNotSha1")
       /\ projects[j].treeish = externals[j].treeish

====
